---- MODULE Spec2Model ----
(***************************************************************************)
(* A model of the agent orchestration engine of dev/agents:                *)
(*   - agent.py: request_patch_from_llm (marker extraction),               *)
(*     parse_github_repo, create_branch, apply_patch, commit_all, git      *)
(*     push, run_tests, create_github_pr, and the temporary files of       *)
(*     call_gh_copilot and call_vscode_chat;                               *)
(*   - auto_develop.py: run_loop, the sequential multi-persona loop.       *)
(* Text is modelled as a sequence of one-character strings, so that        *)
(* str.find, str.strip, str.split and the slices are computed and not      *)
(* assumed.  Optional[T] is <<>> for None and <<v>> for a value v.         *)
(***************************************************************************)
EXTENDS Integers, Sequences, FiniteSets, TLC

VARIABLES
    personas,     \* auto_develop.py:38  the persona ids, in list order
    use_llm,      \* run_loop parameters (auto_develop.py:37)
    apply,
    push,
    pr,
    dry_run,
    pc,           \* position of the control flow
    idx,          \* number of personas the for loop has taken so far
    content,      \* Optional: the provider's response for the current persona
    patch,        \* Optional: `patch` of the current iteration
    branch,       \* Optional: `branch` of the current iteration
    last_branch,  \* Optional: `last_branch`
    tests_ok,     \* Optional: `tests_ok`
    clock,        \* the UTC clock, in seconds
    branches,     \* the repository: branch name -> sequence of commits
    head,         \* the repository: the branch checked out
    staged,       \* the repository: personas whose patch sits in the index
    remote,       \* origin: branch name -> sequence of commits
    log,          \* every call made to a collaborator, in order
    remote_url,   \* Optional: what `git remote get-url origin` gave
    parsed,       \* result of parse_github_repo(remote_url)
    in_owner,     \* the owner and repository names a remote URL was built from
    in_repo,
    github_token, \* Optional: whether create_github_pr found GITHUB_TOKEN set
    calls,        \* number of provider calls that created temporary files
    tmp_files,    \* the temporary files of those calls that exist
    made,         \* the temporary files those calls created
    exit_path,    \* the way the current provider call ends
    test_env      \* what run_tests meets: SKIP_TESTS, the setup, the test command

vars == << personas, use_llm, apply, push, pr, dry_run, pc, idx, content, patch,
           branch, last_branch, tests_ok, clock, branches, head, staged, remote,
           log, remote_url, parsed, in_owner, in_repo, github_token,
           calls, tmp_files, made, exit_path, test_env >>

\* the variables of the providers that work through temporary files
ProviderVars == << calls, tmp_files, made, exit_path >>

-----------------------------------------------------------------------------
(* Optional values *)

None == <<>>

Some(v) == <<v>>

\* Python truthiness of an Optional[str]: None and "" are both false
\* (auto_develop.py:52 `if not patch`).
Truthy(opt) == opt # None /\ opt[1] # <<>>

-----------------------------------------------------------------------------
(* Python string primitives, on sequences of characters *)

\* str.strip() with no argument removes these from both ends.
Whitespace == {" ", "\n", "\t", "\r"}

\* s[a:b] for 0 <= a, b <= len(s)
Slice(s, a, b) == SubSeq(s, a + 1, b)

\* s.startswith(p)
StartsWith(s, p) == Len(s) >= Len(p) /\ SubSeq(s, 1, Len(p)) = p

\* s.endswith(p)
EndsWith(s, p) == Len(s) >= Len(p) /\ SubSeq(s, Len(s) - Len(p) + 1, Len(s)) = p

\* the 0-based offsets at which sub occurs in s
Occurrences(s, sub) ==
    { i \in 0..(Len(s) - Len(sub)) : SubSeq(s, i + 1, i + Len(sub)) = sub }

\* s.find(sub): the lowest offset, -1 when there is none
Find(s, sub) ==
    LET occ == Occurrences(s, sub)
    IN  IF occ = {} THEN -1 ELSE CHOOSE i \in occ : \A j \in occ : i <= j

\* s.lstrip()
RECURSIVE LStrip(_)
LStrip(s) == IF s # <<>> /\ Head(s) \in Whitespace THEN LStrip(Tail(s)) ELSE s

\* s.rstrip()
RECURSIVE RStrip(_)
RStrip(s) ==
    IF s # <<>> /\ s[Len(s)] \in Whitespace THEN RStrip(SubSeq(s, 1, Len(s) - 1)) ELSE s

\* s.strip()
Strip(s) == RStrip(LStrip(s))

\* the concatenation of a sequence of strings
RECURSIVE Concat(_)
Concat(ss) == IF ss = <<>> THEN <<>> ELSE Head(ss) \o Concat(Tail(ss))

\* all sequences of at most n elements of S
RECURSIVE SeqsUpTo(_, _)
SeqsUpTo(S, n) ==
    IF n = 0 THEN { <<>> }
    ELSE LET shorter == SeqsUpTo(S, n - 1)
         IN  shorter \cup { Append(s, e) : s \in { t \in shorter : Len(t) = n - 1 }, e \in S }

-----------------------------------------------------------------------------
(* agent.py: the marker protocol of request_patch_from_llm *)

PATCH_START == << "P", "A", "T", "C", "H", "_", "S", "T", "A", "R", "T" >>

PATCH_END == << "P", "A", "T", "C", "H", "_", "E", "N", "D" >>

DIFF_GIT == << "d", "i", "f", "f", " ", "-", "-", "g", "i", "t" >>

MINUS_A == << "-", "-", "-", " ", "a", "/" >>

\* agent.py:273  the markers are usable
MarkersFound(start, end) == start # -1 /\ end # -1 /\ end > start

\* MarkerPayload without the strip()
MarkerPayloadUnstripped(text, start, end) == Slice(text, start + Len(PATCH_START), end)

\* agent.py:274  content[start + len("PATCH_START") : end].strip()
MarkerPayload(text, start, end) == Strip(Slice(text, start + Len(PATCH_START), end))

\* agent.py:277  the response looks like a diff
LooksLikeDiff(text) ==
    StartsWith(Strip(text), DIFF_GIT) \/ StartsWith(Strip(text), MINUS_A)

\* agent.py:270-279  what request_patch_from_llm returns for the response `text`
request_patch_from_llm(text) ==
    LET start == Find(text, PATCH_START)
        end   == Find(text, PATCH_END)
    IN  IF MarkersFound(start, end) THEN Some(MarkerPayload(text, start, end))
        ELSE IF LooksLikeDiff(text) THEN Some(text)
        ELSE None

-----------------------------------------------------------------------------
(* agent.py: parse_github_repo *)

GIT_AT == << "g", "i", "t", "@" >>

HTTP == << "h", "t", "t", "p" >>

DOT_GIT == << ".", "g", "i", "t" >>

\* the result of a call that may return a value, return None or raise
Returned(v) == [tag |-> "value", val |-> v]

ReturnedNone == [tag |-> "none", val |-> <<>>]

Raised == [tag |-> "raise", val |-> <<>>]

\* the 1-based positions of the character c in s
Positions(s, c) == { i \in 1..Len(s) : s[i] = c }

FirstPos(s, c) == CHOOSE i \in Positions(s, c) : \A j \in Positions(s, c) : i <= j

LastPos(s, c) == CHOOSE i \in Positions(s, c) : \A j \in Positions(s, c) : i >= j

\* s.rsplit(c, 1)[-1]: what follows the last c, the whole of s when there is none
AfterLast(s, c) ==
    IF Positions(s, c) = {} THEN s ELSE SubSeq(s, LastPos(s, c) + 1, Len(s))

\* s.rsplit(c, 2)[-2], for an s that holds c: what lies between the last two c,
\* or what precedes the only one
BeforeLast(s, c) == AfterLast(SubSeq(s, 1, LastPos(s, c) - 1), c)

\* agent.py:87  path.removeprefix("/")
RemovePrefixSlash(path) == IF StartsWith(path, << "/" >>) THEN Tail(path) ELSE path

\* DropDotGit that keeps the suffix
KeepDotGit(path) == path

\* agent.py:88-89  drop one trailing ".git"
DropDotGit(path) ==
    IF EndsWith(path, DOT_GIT) THEN SubSeq(path, 1, Len(path) - 4) ELSE path

\* agent.py:90-93  owner, repo = path.split("/", 1), None without a "/"
SplitOwnerRepo(path) ==
    IF Positions(path, "/") = {} THEN ReturnedNone
    ELSE LET k == FirstPos(path, "/")
         IN  Returned(<< SubSeq(path, 1, k - 1), SubSeq(path, k + 1, Len(path)) >>)

\* agent.py:79-93  the tuple unpacking of line 82 raises ValueError when the
\* URL holds no ":", the [-2] of line 84 raises IndexError when it holds no "/"
parse_github_repo(url) ==
    IF StartsWith(url, GIT_AT) THEN
        IF Positions(url, ":") = {} THEN Raised
        ELSE SplitOwnerRepo(DropDotGit(RemovePrefixSlash(
                 SubSeq(url, FirstPos(url, ":") + 1, Len(url)))))
    ELSE IF StartsWith(url, HTTP) THEN
        IF Positions(url, "/") = {} THEN Raised
        ELSE SplitOwnerRepo(DropDotGit(RemovePrefixSlash(
                 BeforeLast(url, "/") \o << "/" >> \o AfterLast(url, "/"))))
    ELSE SplitOwnerRepo(DropDotGit(RemovePrefixSlash(url)))

-----------------------------------------------------------------------------
(* Bounds and the inputs drawn from them *)

MaxPersonas == 2

\* auto_develop.py:33-34  timestamp() has a resolution of one second: between two
\* calls the second either is the same or has advanced
Ticks == {0, 1}

\* the `id` fields a persona record may carry; load_personas (auto_develop.py:27-30)
\* checks nothing, so two records may carry the same id
PersonaIds == {"dev", "qa"}

\* run_loop only formats an id into a branch name, so the lists are taken up to
\* a renaming of the ids: the first persona is "dev"
PersonaLists ==
    { l \in SeqsUpTo(PersonaIds, MaxPersonas) : l = << >> \/ l[1] = "dev" }

NL == << "\n" >>

SP == << " " >>

X == << "x" >>

\* mock_llm.py:11-20, with the diff cut down to its header
MockResponse == NL \o PATCH_START \o NL \o DIFF_GIT \o NL \o PATCH_END \o NL

\* the answer the prompt asks for when no change is needed (agent.py:261)
EmptyPayload == PATCH_START \o NL \o PATCH_END

\* an answer that holds neither a marker nor a diff
Chatter == X \o SP \o X

\* a diff without markers, after an empty line
IndentedDiff == NL \o DIFF_GIT \o SP \o X

\* the responses a provider gives inside run_loop: one with a patch between the
\* markers, one with nothing between them, one without markers
LoopResponses == { MockResponse, EmptyPayload, Chatter }

-----------------------------------------------------------------------------
(* The calls made to collaborators *)

\* one call: the function, the persona whose iteration makes it (0 once the for
\* loop is over), its branch argument (None when it takes none) and whether it
\* succeeded
Call(op, i, arg, ok) == [op |-> op, i |-> i, arg |-> arg, ok |-> ok]

CallsOf(op) == { k \in 1..Len(log) : log[k].op = op }

CallsFor(op, i) == { k \in CallsOf(op) : log[k].i = i }

RepoOps == {"create_branch", "apply_patch", "commit_all", "push"}

-----------------------------------------------------------------------------
(* auto_develop.py: run_loop *)

MAIN == << "main" >>

\* auto_develop.py:60  branch = f"agent/{pid}/{timestamp()}"
BranchName(pid, ts) == << "agent", pid, ts >>

\* AfterGenerate without the dry-run test
AfterGenerateNoDryRun(p) ==
    IF ~Truthy(p) THEN "loop"
    ELSE IF ~apply THEN "loop"
    ELSE "branch"

\* AfterGenerate without the `if not patch` test
AfterGenerateNoPatchTest(p) == IF dry_run \/ ~apply THEN "loop" ELSE "branch"

\* AfterGenerate without the test of the apply flag
AfterGenerateNoApplyTest(p) ==
    IF ~Truthy(p) THEN "loop"
    ELSE IF dry_run THEN "loop"
    ELSE "branch"

\* auto_develop.py:52-59  where the iteration goes once `patch` is known
AfterGenerate(p) ==
    IF ~Truthy(p) THEN "loop"
    ELSE IF dry_run \/ ~apply THEN "loop"
    ELSE "branch"

\* AfterCreate with commit_all called before apply_patch
AfterCreateCommitFirst(ok) == "commit"

\* auto_develop.py:62-63  the exit status of git checkout -b is not looked at
AfterCreate(ok) == "apply"

\* AfterApply without the test of ok
AfterApplyUnchecked(ok) == "commit"

\* AfterApply with the `return` of agent.py:355-357 in place of `continue`
AfterApplyAborting(ok) == IF ok THEN "commit" ELSE "aborted"

\* auto_develop.py:64-66  `if not ok: continue`
AfterApply(ok) == IF ok THEN "commit" ELSE "loop"

\* auto_develop.py:67-69  the exit status of git commit is not looked at
AfterCommit(ok) == IF push THEN "push" ELSE "loop"

\* last_branch set only once the branch exists
LastBranchIfCreated(name, ok) == IF ok THEN Some(name) ELSE last_branch

\* auto_develop.py:61  last_branch = branch, before create_branch is called
LastBranchAt(name, ok) == Some(name)

\* tests run whatever the mode
TestsAlways == TRUE

\* auto_develop.py:72  `if dry_run:` tests are not run
TestsWanted == ~dry_run

\* auto_develop.py:78  `if tests_ok and pr and push and last_branch:`
PublishWanted == tests_ok = Some(TRUE) /\ pr /\ push /\ last_branch # None

\* auto_develop.py:47-51 with agent.py:264-279: the provider call, which raises
\* or returns text, and the extraction; the except clause leaves patch None
Generate ==
    /\ pc = "loop"
    /\ idx < Len(personas)
    /\ idx' = idx + 1
    /\ \/ /\ ~use_llm
          /\ content' = None
          /\ patch' = None
          /\ log' = log
       \/ /\ use_llm
          /\ content' = None
          /\ patch' = None
          /\ log' = Append(log, Call("call_llm", idx + 1, None, FALSE))
       \/ /\ use_llm
          /\ \E text \in LoopResponses :
                /\ content' = Some(text)
                /\ patch' = request_patch_from_llm(text)
          /\ log' = Append(log, Call("call_llm", idx + 1, None, TRUE))
    /\ pc' = AfterGenerate(patch')
    /\ UNCHANGED << personas, use_llm, apply, push, pr, dry_run, branch, last_branch,
                    tests_ok, clock, branches, head, staged, remote, remote_url,
                    parsed, in_owner, in_repo,
                    github_token, ProviderVars,
                    test_env >>

\* auto_develop.py:60-62 with agent.py:62-63: git checkout -b fails when the
\* branch exists, and may fail otherwise (a ref name git rejects, a locked index)
CreateBranch ==
    /\ pc = "branch"
    /\ \E ts \in { clock + d : d \in Ticks } :
          LET name == BranchName(personas[idx], ts)
          IN  /\ clock' = ts
              /\ branch' = Some(name)
              /\ \E ok \in (IF name \in DOMAIN branches THEN {FALSE} ELSE BOOLEAN) :
                    /\ last_branch' = LastBranchAt(name, ok)
                    /\ branches' = IF ok THEN (name :> branches[head]) @@ branches
                                   ELSE branches
                    /\ head' = IF ok THEN name ELSE head
                    /\ log' = Append(log, Call("create_branch", idx, Some(name), ok))
                    /\ pc' = AfterCreate(ok)
    /\ UNCHANGED << personas, use_llm, apply, push, pr, dry_run, idx, content, patch,
                    tests_ok, staged, remote, remote_url, parsed, in_owner, in_repo,
                    github_token, ProviderVars,
                    test_env >>

\* auto_develop.py:63 with agent.py:282-291: git apply --index takes the whole
\* patch or nothing
ApplyPatch ==
    /\ pc = "apply"
    /\ \E ok \in (IF Truthy(patch) THEN BOOLEAN ELSE {FALSE}) :
          /\ staged' = IF ok THEN staged \cup {idx} ELSE staged
          /\ log' = Append(log, Call("apply_patch", idx, None, ok))
          /\ pc' = AfterApply(ok)
    /\ UNCHANGED << personas, use_llm, apply, push, pr, dry_run, idx, content, patch,
                    branch, last_branch, tests_ok, clock, branches, head, remote,
                    remote_url, parsed, in_owner, in_repo,
                    github_token, ProviderVars,
                    test_env >>

\* auto_develop.py:67 with agent.py:66-68: git add -A, then git commit on the
\* branch checked out; the commit is named after the persona it was made for
CommitAll ==
    /\ pc = "commit"
    /\ \E ok \in (IF staged = {} THEN {FALSE} ELSE BOOLEAN) :
          /\ branches' = IF ok THEN [branches EXCEPT ![head] = Append(@, idx)]
                         ELSE branches
          /\ staged' = IF ok THEN {} ELSE staged
          /\ log' = Append(log, Call("commit_all", idx, None, ok))
          /\ pc' = AfterCommit(ok)
    /\ UNCHANGED << personas, use_llm, apply, push, pr, dry_run, idx, content, patch,
                    branch, last_branch, tests_ok, clock, head, remote, remote_url,
                    parsed, in_owner, in_repo,
                    github_token, ProviderVars,
                    test_env >>

\* auto_develop.py:68-69  git push -u origin branch: fails when there is no
\* such local branch, and may fail otherwise
Push ==
    /\ pc = "push"
    /\ LET name == branch[1]
       IN  \E ok \in (IF name \in DOMAIN branches THEN BOOLEAN ELSE {FALSE}) :
              /\ remote' = IF ok THEN (name :> branches[name]) @@ remote ELSE remote
              /\ log' = Append(log, Call("push", idx, Some(name), ok))
    /\ pc' = "loop"
    /\ UNCHANGED << personas, use_llm, apply, push, pr, dry_run, idx, content, patch,
                    branch, last_branch, tests_ok, clock, branches, head, staged,
                    remote_url, parsed, in_owner, in_repo,
                    github_token, ProviderVars,
                    test_env >>

\* auto_develop.py:71-77  after the for loop; run_tests returns True or False
\* (agent.py:33-55, followed statement by statement in SpecTests)
RunTests ==
    /\ pc = "loop"
    /\ idx = Len(personas)
    /\ \/ /\ ~TestsWanted
          /\ tests_ok' = Some(TRUE)
          /\ log' = log
       \/ /\ TestsWanted
          /\ \E ok \in BOOLEAN :
                /\ tests_ok' = Some(ok)
                /\ log' = Append(log, Call("run_tests", 0, None, ok))
    /\ pc' = "publish"
    /\ UNCHANGED << personas, use_llm, apply, push, pr, dry_run, idx, content, patch,
                    branch, last_branch, clock, branches, head, staged, remote,
                    remote_url, parsed, in_owner, in_repo,
                    github_token, ProviderVars, test_env >>

-----------------------------------------------------------------------------
(* Remote URLs *)

GITHUB == << "g", "i", "t", "h", "u", "b", ".", "c", "o", "m" >>

ACME == << "a", "c", "m", "e" >>

WIDGETS == << "w", "i", "d", "g", "e", "t", "s" >>

\* git@host:owner/repo[.git]
SshUrl(host, owner, repo, suffix) ==
    GIT_AT \o host \o << ":" >> \o owner \o << "/" >> \o repo
    \o (IF suffix THEN DOT_GIT ELSE << >>)

\* https://host/owner/repo[.git]
HttpsUrl(host, owner, repo, suffix) ==
    HTTP \o << "s", ":", "/", "/" >> \o host \o << "/" >> \o owner \o << "/" >> \o repo
    \o (IF suffix THEN DOT_GIT ELSE << >>)

\* agent.py:71-76  what get_repo_remote may return: None when git fails, else
\* the URL of origin, which may be a URL of a hosted repository, a bare name, or
\* an SSH-style name without a path
RemoteAnswers ==
    { None,
      Some(SshUrl(GITHUB, ACME, WIDGETS, TRUE)),
      Some(WIDGETS),
      Some(GIT_AT \o GITHUB) }

\* agent.py:313-321  urlopen returns 2xx, raises HTTPError (caught), or raises
\* something else (URLError, a timeout), which nothing catches
HttpOutcomes == {"created", "http_error", "url_error"}

\* agent.py:294-321  how create_github_pr ends
PublishResult(url, token, http) ==
    IF url = None THEN "no_remote"
    ELSE LET repo == parse_github_repo(url[1])
         IN  IF repo.tag = "raise" THEN "parse_raised"
             ELSE IF repo.tag = "none" THEN "unparsable"
             ELSE IF ~token THEN "no_token"
             ELSE http

\* agent.py:305  GITHUB_TOKEN is looked up once remote and repo are there
TokenRead(result) == result \in {"no_token"} \cup HttpOutcomes

\* agent.py:310-314  the request is sent only once remote, repo and token are there
RequestSent(result) == result \in HttpOutcomes

\* the exceptions create_github_pr lets through
PublishRaises(result) == result \in {"parse_raised", "url_error"}

\* auto_develop.py:78-79 with agent.py:294-321
Publish ==
    /\ pc = "publish"
    /\ \/ /\ ~PublishWanted
          /\ pc' = "done"
          /\ UNCHANGED << log, remote_url, parsed, github_token >>
       \/ /\ PublishWanted
          /\ \E url \in RemoteAnswers, token \in BOOLEAN, http \in HttpOutcomes :
                LET result == PublishResult(url, token, http)
                IN  /\ remote_url' = url
                    /\ github_token' = IF TokenRead(result) THEN Some(token)
                                       ELSE None
                    /\ parsed' = IF url = None THEN ReturnedNone
                                 ELSE parse_github_repo(url[1])
                    /\ log' = log
                              \o << Call("create_github_pr", 0, last_branch,
                                         result = "created") >>
                              \o (IF RequestSent(result)
                                  THEN << Call("post_pull", 0, last_branch,
                                               result = "created") >>
                                  ELSE << >>)
                    /\ pc' = IF PublishRaises(result) THEN "raised" ELSE "done"
    /\ UNCHANGED << personas, use_llm, apply, push, pr, dry_run, idx, content, patch,
                    branch, last_branch, tests_ok, clock, branches, head, staged,
                    remote, in_owner, in_repo, ProviderVars,
                    test_env >>

\* the environment of run_tests while run_tests itself is not looked at
NoTestEnv == [skip |-> None, setup_ok |-> TRUE, exit |-> None]

\* no provider call has been made yet
ProviderIdle ==
    /\ calls = 0
    /\ tmp_files = {}
    /\ made = {}
    /\ exit_path = "none"

\* the state run_loop starts in: any persona list, any flags, a repository
\* with the branch main checked out and a clean index
Init ==
    /\ personas \in PersonaLists
    /\ use_llm \in BOOLEAN
    /\ apply \in BOOLEAN
    /\ push \in BOOLEAN
    /\ pr \in BOOLEAN
    /\ dry_run \in BOOLEAN
    /\ pc = "loop"
    /\ idx = 0
    /\ content = None
    /\ patch = None
    /\ branch = None
    /\ last_branch = None
    /\ tests_ok = None
    /\ clock = 0
    /\ branches = (MAIN :> << >>)
    /\ head = MAIN
    /\ staged = {}
    /\ remote = (MAIN :> << >>)
    /\ log = << >>
    /\ remote_url = None
    /\ parsed = ReturnedNone
    /\ in_owner = << >>
    /\ in_repo = << >>
    /\ github_token = None
    /\ ProviderIdle
    /\ test_env = NoTestEnv

Next ==
    \/ Generate
    \/ CreateBranch
    \/ ApplyPatch
    \/ CommitAll
    \/ Push
    \/ RunTests
    \/ Publish

Spec == Init /\ [][Next]_vars

\* run_loop is one thread: whatever statement is next is executed, and every
\* call it makes returns
FairSpec == Spec /\ WF_vars(Next)

-----------------------------------------------------------------------------
(* request_patch_from_llm on its own: any response built from a few pieces *)

MaxPieces == 4

NOISE == << "n", "o", "i", "s", "e" >>

DIFFTEXT == << "D", "I", "F", "F", "T", "E", "X", "T" >>

\* the example response "noise PATCH_START\nDIFFTEXT\nPATCH_END more noise"
NoisyResponse ==
    NOISE \o SP \o PATCH_START \o NL \o DIFFTEXT \o NL \o PATCH_END
    \o SP \o << "m", "o", "r", "e" >> \o SP \o NOISE

\* a marker cut short
PARTIAL == << "P", "A", "T", "C", "H", "_" >>

\* text with whitespace on both sides
PADDED == SP \o X \o NL

Pieces == { SP, X, PADDED, PATCH_START, PATCH_END, DIFF_GIT, MINUS_A, PARTIAL }

Responses ==
    { Concat(ps) : ps \in SeqsUpTo(Pieces, MaxPieces) }
    \cup LoopResponses \cup { IndentedDiff, NoisyResponse }

\* what the variables of run_loop hold while a function is looked at on its own
LoopIdle ==
    /\ personas = << >>
    /\ use_llm = FALSE
    /\ apply = FALSE
    /\ push = FALSE
    /\ pr = FALSE
    /\ dry_run = FALSE
    /\ idx = 0
    /\ branch = None
    /\ last_branch = None
    /\ tests_ok = None
    /\ clock = 0
    /\ branches = (MAIN :> << >>)
    /\ head = MAIN
    /\ staged = {}
    /\ remote = (MAIN :> << >>)
    /\ log = << >>
    /\ github_token = None
    /\ ProviderIdle
    /\ test_env = NoTestEnv

LoopVars == << personas, use_llm, apply, push, pr, dry_run, idx, branch, last_branch,
               tests_ok, clock, branches, head, staged, remote, log, github_token,
               ProviderVars, test_env >>

InitExtract ==
    /\ LoopIdle
    /\ pc = "extract"
    /\ content \in { Some(text) : text \in Responses }
    /\ patch = None
    /\ remote_url = None
    /\ parsed = ReturnedNone
    /\ in_owner = << >>
    /\ in_repo = << >>

\* agent.py:270-279
Extract ==
    /\ pc = "extract"
    /\ patch' = request_patch_from_llm(content[1])
    /\ pc' = "extracted"
    /\ UNCHANGED << LoopVars, content, remote_url, parsed, in_owner, in_repo >>

NextExtract == Extract

SpecExtract == InitExtract /\ [][NextExtract]_vars

\* run_loop, and request_patch_from_llm on its own
SpecLoopAndExtract == (Init \/ InitExtract) /\ [][Next \/ NextExtract]_vars

-----------------------------------------------------------------------------
(* parse_github_repo on its own: URLs built from an owner and a repository *)

MaxNameParts == 2

NameParts == { ACME, WIDGETS, DOT_GIT, X }

Names == { Concat(ps) : ps \in SeqsUpTo(NameParts, MaxNameParts) } \ { << >> }

Hosts == { GITHUB, << "h", ".", "i", "o" >> }

UrlsOf(owner, repo) ==
    { SshUrl(host, owner, repo, suffix) : host \in Hosts, suffix \in BOOLEAN }
    \cup { HttpsUrl(host, owner, repo, suffix) : host \in Hosts, suffix \in BOOLEAN }

InitParse ==
    /\ LoopIdle
    /\ pc = "parse"
    /\ content = None
    /\ patch = None
    /\ in_owner \in Names
    /\ in_repo \in Names
    /\ remote_url \in { Some(url) : url \in UrlsOf(in_owner, in_repo) }
    /\ parsed = ReturnedNone

\* agent.py:79-93
Parse ==
    /\ pc = "parse"
    /\ parsed' = parse_github_repo(remote_url[1])
    /\ pc' = "parsed"
    /\ UNCHANGED << LoopVars, content, patch, remote_url, in_owner, in_repo >>

NextParse == Parse

SpecParse == InitParse /\ [][NextParse]_vars

-----------------------------------------------------------------------------
(* call_vscode_chat and call_gh_copilot on their own: the temporary files *)

MaxCalls == 3

\* the temporary files of the current call: tempfile gives every file a new name
PromptFile == << calls, "prompt" >>

OutputFile == << calls, "output" >>

\* os.unlink(f): removes f, raises FileNotFoundError when there is no f
Unlink(files, f) ==
    IF f \in files THEN [files |-> files \ {f}, ok |-> TRUE]
    ELSE [files |-> files, ok |-> FALSE]

\* os.unlink(f) then os.unlink(g); the second is not reached when the first raises
UnlinkBoth(files, f, g) ==
    LET r == Unlink(files, f)
    IN  IF r.ok THEN Unlink(r.files, g) ELSE r

\* UnlinkIfExists that removes nothing
UnlinkNever(files, f) == files

\* agent.py:171-172, 232-235  if os.path.exists(f): os.unlink(f)
UnlinkIfExists(files, f) == files \ {f}

\* what subprocess.run does: the program cannot be started (OSError), it runs
\* past the timeout (TimeoutExpired), it exits non-zero, it exits with 0
RunOutcomes == {"not_started", "timeout", "nonzero", "success"}

\* a call may begin when none is under way
ProviderAtRest == pc \in {"llm_idle", "llm_returned", "llm_raised"}

NonProviderVars ==
    << personas, use_llm, apply, push, pr, dry_run, idx, content, patch, branch,
       last_branch, tests_ok, clock, branches, head, staged, remote, log,
       remote_url, parsed, in_owner, in_repo, github_token, test_env >>

\* agent.py:153-155  call_gh_copilot writes the prompt to a temporary file
GhCreatePrompt ==
    /\ ProviderAtRest
    /\ calls < MaxCalls
    /\ calls' = calls + 1
    /\ tmp_files' = tmp_files \cup {<< calls + 1, "prompt" >>}
    /\ made' = made \cup {<< calls + 1, "prompt" >>}
    /\ exit_path' = "none"
    /\ pc' = "gh_run"
    /\ UNCHANGED NonProviderVars

\* agent.py:160-161  subprocess.run(cmd, ..., timeout=timeout)
GhRun ==
    /\ pc = "gh_run"
    /\ \E out \in RunOutcomes :
          /\ exit_path' = out
          /\ pc' = CASE out = "not_started" -> "gh_except"
                     [] out = "timeout" -> "gh_timeout"
                     [] OTHER -> "gh_unlink"
    /\ UNCHANGED << NonProviderVars, calls, tmp_files, made >>

\* agent.py:162-166  os.unlink(temp_path), then RuntimeError on a non-zero
\* exit, raised inside the try, or the return of stdout
GhUnlink ==
    /\ pc = "gh_unlink"
    /\ LET r == Unlink(tmp_files, PromptFile)
       IN  /\ tmp_files' = r.files
           /\ pc' = IF ~r.ok \/ exit_path = "nonzero" THEN "gh_except"
                    ELSE "llm_returned"
    /\ UNCHANGED << NonProviderVars, calls, made, exit_path >>

\* agent.py:167-169  except subprocess.TimeoutExpired
GhTimeout ==
    /\ pc = "gh_timeout"
    /\ tmp_files' = Unlink(tmp_files, PromptFile).files
    /\ pc' = "llm_raised"
    /\ UNCHANGED << NonProviderVars, calls, made, exit_path >>

\* agent.py:170-173  except Exception
GhExcept ==
    /\ pc = "gh_except"
    /\ tmp_files' = UnlinkIfExists(tmp_files, PromptFile)
    /\ pc' = "llm_raised"
    /\ UNCHANGED << NonProviderVars, calls, made, exit_path >>

\* agent.py:191-193  call_vscode_chat writes the prompt to a temporary file
VsCreatePrompt ==
    /\ ProviderAtRest
    /\ calls < MaxCalls
    /\ calls' = calls + 1
    /\ tmp_files' = tmp_files \cup {<< calls + 1, "prompt" >>}
    /\ made' = made \cup {<< calls + 1, "prompt" >>}
    /\ exit_path' = "none"
    /\ pc' = "vs_create_output"
    /\ UNCHANGED NonProviderVars

\* agent.py:195-197  and creates an empty file for the helper's output
VsCreateOutput ==
    /\ pc = "vs_create_output"
    /\ tmp_files' = tmp_files \cup {OutputFile}
    /\ made' = made \cup {OutputFile}
    /\ pc' = "vs_helper"
    /\ UNCHANGED << NonProviderVars, calls, exit_path >>

\* agent.py:200-210  without VSCODE_COPILOT_HELPER both files are unlinked and
\* RuntimeError is raised, outside the try
VsHelper ==
    /\ pc = "vs_helper"
    /\ \/ /\ exit_path' = "not_configured"
          /\ tmp_files' = UnlinkBoth(tmp_files, PromptFile, OutputFile).files
          /\ pc' = "llm_raised"
       \/ /\ pc' = "vs_run"
          /\ UNCHANGED << tmp_files, exit_path >>
    /\ UNCHANGED << NonProviderVars, calls, made >>

\* agent.py:214-218  subprocess.run(cmd, ..., timeout=timeout), RuntimeError on
\* a non-zero exit
VsRun ==
    /\ pc = "vs_run"
    /\ \E out \in RunOutcomes :
          /\ exit_path' = out
          /\ pc' = CASE out = "timeout" -> "vs_timeout"
                     [] out = "success" -> "vs_read"
                     [] OTHER -> "vs_except"
    /\ UNCHANGED << NonProviderVars, calls, tmp_files, made >>

\* agent.py:221-222  the output file is opened and read as UTF-8; what the
\* helper left there may not decode
VsRead ==
    /\ pc = "vs_read"
    /\ \/ /\ pc' = "vs_cleanup"
          /\ UNCHANGED exit_path
       \/ /\ exit_path' = "read_failed"
          /\ pc' = "vs_except"
    /\ UNCHANGED << NonProviderVars, calls, tmp_files, made >>

\* agent.py:224-226  both files are unlinked and the result is returned
VsCleanup ==
    /\ pc = "vs_cleanup"
    /\ LET r == UnlinkBoth(tmp_files, PromptFile, OutputFile)
       IN  /\ tmp_files' = r.files
           /\ pc' = IF r.ok THEN "llm_returned" ELSE "vs_except"
    /\ UNCHANGED << NonProviderVars, calls, made, exit_path >>

\* agent.py:227-230  except subprocess.TimeoutExpired
VsTimeout ==
    /\ pc = "vs_timeout"
    /\ tmp_files' = UnlinkBoth(tmp_files, PromptFile, OutputFile).files
    /\ pc' = "llm_raised"
    /\ UNCHANGED << NonProviderVars, calls, made, exit_path >>

\* agent.py:231-236  except Exception
VsExcept ==
    /\ pc = "vs_except"
    /\ tmp_files' = UnlinkIfExists(UnlinkIfExists(tmp_files, PromptFile), OutputFile)
    /\ pc' = "llm_raised"
    /\ UNCHANGED << NonProviderVars, calls, made, exit_path >>

InitProvider ==
    /\ LoopIdle
    /\ pc = "llm_idle"
    /\ content = None
    /\ patch = None
    /\ remote_url = None
    /\ parsed = ReturnedNone
    /\ in_owner = << >>
    /\ in_repo = << >>

NextProvider ==
    \/ GhCreatePrompt
    \/ GhRun
    \/ GhUnlink
    \/ GhTimeout
    \/ GhExcept
    \/ VsCreatePrompt
    \/ VsCreateOutput
    \/ VsHelper
    \/ VsRun
    \/ VsRead
    \/ VsCleanup
    \/ VsTimeout
    \/ VsExcept

SpecProvider == InitProvider /\ [][NextProvider]_vars

-----------------------------------------------------------------------------
(* run_tests on its own *)

UPPER ==
    << "A", "B", "C", "D", "E", "F", "G", "H", "I", "J", "K", "L", "M",
       "N", "O", "P", "Q", "R", "S", "T", "U", "V", "W", "X", "Y", "Z" >>

LOWER ==
    << "a", "b", "c", "d", "e", "f", "g", "h", "i", "j", "k", "l", "m",
       "n", "o", "p", "q", "r", "s", "t", "u", "v", "w", "x", "y", "z" >>

\* str.lower()
Lower(s) ==
    [ k \in 1..Len(s) |->
        IF \E n \in 1..Len(UPPER) : UPPER[n] = s[k]
        THEN LOWER[CHOOSE n \in 1..Len(UPPER) : UPPER[n] = s[k]]
        ELSE s[k] ]

ONE == << "1" >>

TRUE_WORD == << "t", "r", "u", "e" >>

YES_WORD == << "y", "e", "s" >>

\* SkipWanted without the lower()
SkipWantedAsSpelled(v) ==
    (IF v = None THEN << "0" >> ELSE v[1]) \in { ONE, TRUE_WORD, YES_WORD }

\* agent.py:41  os.environ.get("SKIP_TESTS", "0").lower() in ("1", "true", "yes")
SkipWanted(v) ==
    Lower(IF v = None THEN << "0" >> ELSE v[1]) \in { ONE, TRUE_WORD, YES_WORD }

\* values SKIP_TESTS may hold: None when it is not in the environment
SkipValues ==
    { None, Some(<< >>), Some(<< "0" >>), Some(ONE),
      Some(TRUE_WORD), Some(<< "T", "r", "u", "e" >>), Some(<< "T", "R", "U", "E" >>),
      Some(YES_WORD), Some(<< "Y", "E", "S" >>),
      Some(<< "n", "o" >>), Some(<< "f", "a", "l", "s", "e" >>) }

\* exit statuses of `python -m pytest -q`: 0 all passed, 1 some failed,
\* 2 interrupted, 5 no test collected
ExitCodes == {0, 1, 2, 5}

\* what run_tests meets: the value of SKIP_TESTS, whether the setup of lines
\* 47-50 goes through, and the exit status of the test command, None when
\* subprocess.run raises
TestEnvs ==
    [ skip : SkipValues, setup_ok : BOOLEAN,
      exit : { None } \cup { Some(c) : c \in ExitCodes } ]

InitTests ==
    /\ personas = << >>
    /\ use_llm = FALSE
    /\ apply = FALSE
    /\ push = FALSE
    /\ pr = FALSE
    /\ dry_run = FALSE
    /\ idx = 0
    /\ branch = None
    /\ last_branch = None
    /\ tests_ok = None
    /\ clock = 0
    /\ branches = (MAIN :> << >>)
    /\ head = MAIN
    /\ staged = {}
    /\ remote = (MAIN :> << >>)
    /\ log = << >>
    /\ github_token = None
    /\ ProviderIdle
    /\ content = None
    /\ patch = None
    /\ remote_url = None
    /\ parsed = ReturnedNone
    /\ in_owner = << >>
    /\ in_repo = << >>
    /\ pc = "tests_skip"
    /\ test_env \in TestEnvs

TestsFixed ==
    << personas, use_llm, apply, push, pr, dry_run, idx, content, patch, branch,
       last_branch, clock, branches, head, staged, remote, remote_url, parsed,
       in_owner, in_repo, github_token, ProviderVars, test_env >>

\* agent.py:41-44  with SKIP_TESTS set nothing is run and True is returned
TestsSkip ==
    /\ pc = "tests_skip"
    /\ IF SkipWanted(test_env.skip)
       THEN /\ tests_ok' = Some(TRUE)
            /\ pc' = "tests_returned"
       ELSE /\ tests_ok' = tests_ok
            /\ pc' = "tests_setup"
    /\ UNCHANGED << TestsFixed, log >>

\* agent.py:46-50, 53-55  makedirs and the copy of the environment; an
\* exception is caught and False returned
TestsSetup ==
    /\ pc = "tests_setup"
    /\ IF test_env.setup_ok
       THEN /\ tests_ok' = tests_ok
            /\ pc' = "tests_run"
       ELSE /\ tests_ok' = Some(FALSE)
            /\ pc' = "tests_returned"
    /\ UNCHANGED << TestsFixed, log >>

\* agent.py:51-55  the test command is run once; its exit status decides, an
\* exception of subprocess.run is caught and False returned
TestsRun ==
    /\ pc = "tests_run"
    /\ log' = Append(log, Call("pytest", 0, None, test_env.exit = Some(0)))
    /\ tests_ok' = Some(test_env.exit = Some(0))
    /\ pc' = "tests_returned"
    /\ UNCHANGED TestsFixed

NextTests ==
    \/ TestsSkip
    \/ TestsSetup
    \/ TestsRun

SpecTests == InitTests /\ [][NextTests]_vars

-----------------------------------------------------------------------------
(* Properties of run_loop *)

\* the run is past the test step
PastTests == pc \in {"publish", "done", "raised"}

\* the run has ended
Ended == pc \in {"done", "raised"}

FullMode == use_llm /\ apply /\ ~dry_run

Last(S) == CHOOSE k \in S : \A j \in S : j <= k

InitialRepo ==
    /\ branches = (MAIN :> << >>)
    /\ head = MAIN
    /\ staged = {}
    /\ remote = (MAIN :> << >>)

\* C1: outside dry-run run_tests is called exactly once, after the last
\* persona's iteration (no call of an iteration follows it, and none is made
\* before the loop is over); in dry-run it is never called and the result is
\* reported as passing.
TestsOnceAfterLoop ==
    /\ Cardinality(CallsOf("run_tests")) = (IF PastTests /\ ~dry_run THEN 1 ELSE 0)
    /\ \A k \in CallsOf("run_tests") :
          /\ idx = Len(personas)
          /\ \A j \in (k + 1)..Len(log) : log[j].i = 0
    /\ (PastTests /\ dry_run) => tests_ok = Some(TRUE)

\* two personas went through apply and commit, and the tests ran once
TestsOnceAfterLoopWitness ==
    /\ pc = "done"
    /\ ~dry_run
    /\ Cardinality(CallsOf("commit_all")) >= 2
    /\ Cardinality(CallsOf("run_tests")) = 1

\* C2: once apply_patch failed for a persona, neither commit_all nor push nor
\* a test run is called in that persona's iteration.
NothingAfterFailedApply ==
    \A k \in CallsOf("apply_patch") :
        ~log[k].ok =>
            \A j \in 1..Len(log) :
                log[j].i = log[k].i =>
                    log[j].op \notin {"commit_all", "push", "run_tests", "pytest"}

\* the first persona's apply failed, the second persona's commit was made
NothingAfterFailedApplyWitness ==
    /\ pc = "done"
    /\ \E k \in CallsFor("apply_patch", 1) : ~log[k].ok
    /\ \E k \in CallsFor("commit_all", 2) : log[k].ok

\* C3: in dry-run mode the repository stays what it was and create_branch,
\* apply_patch, commit_all and push are never called, whatever the personas,
\* the responses and the other flags.
DryRunLeavesRepository ==
    dry_run => /\ InitialRepo
               /\ \A k \in 1..Len(log) : log[k].op \notin RepoOps

\* a dry run with every other flag set, ended after a persona produced a patch
DryRunLeavesRepositoryWitness ==
    /\ pc = "done"
    /\ dry_run /\ use_llm /\ apply /\ push /\ pr
    /\ Len(personas) >= 2
    /\ Truthy(patch)

\* C4: create_github_pr is called at most once, after the loop and the test
\* step, and it is called if and only if the tests passed, pr and push were
\* requested and some persona's branch was actually created.
PublishIffBranchCreated ==
    /\ Cardinality(CallsOf("create_github_pr")) <= 1
    /\ \A k \in CallsOf("create_github_pr") :
          /\ PastTests
          /\ \A j \in (k + 1)..Len(log) : log[j].i = 0
    /\ Ended =>
          (CallsOf("create_github_pr") # {}
             <=> /\ tests_ok = Some(TRUE)
                 /\ pr
                 /\ push
                 /\ \E k \in CallsOf("create_branch") : log[k].ok)

\* C5: last_branch is None while no persona has reached create_branch, and
\* else the branch of the latest persona that reached it, whatever became of
\* that persona's apply and commit.
LastBranchIsLatestAttempt ==
    LET attempts == CallsOf("create_branch")
    IN  IF attempts = {} THEN last_branch = None
        ELSE LET k == Last(attempts)
             IN  /\ last_branch = log[k].arg
                 /\ last_branch[1][2] = personas[log[k].i]
                 /\ \A j \in attempts : log[j].i <= log[k].i

\* the first persona's branch could not be created and its apply failed, the
\* second persona was skipped, and last_branch is the first persona's branch
LastBranchIsLatestAttemptWitness ==
    /\ pc = "done"
    /\ Len(personas) = 2
    /\ \E k \in CallsFor("create_branch", 1) : ~log[k].ok /\ last_branch = log[k].arg
    /\ \E k \in CallsFor("apply_patch", 1) : ~log[k].ok
    /\ CallsFor("create_branch", 2) = {}

\* C6: with the LLM in use, whatever fails for a persona, every persona's
\* provider call is made, in list order, and the run reaches the test and
\* publish stage.
EveryPersonaProcessed ==
    <>( /\ PastTests
        /\ use_llm => /\ \A i \in 1..Len(personas) : CallsFor("call_llm", i) # {}
                      /\ \A j, k \in CallsOf("call_llm") : j < k => log[j].i < log[k].i )

\* the first persona's provider call failed, the second persona's apply
\* failed, and the run ended
EveryPersonaProcessedWitness ==
    /\ pc = "done"
    /\ Len(personas) = 2
    /\ \E k \in CallsFor("call_llm", 1) : ~log[k].ok
    /\ \E k \in CallsFor("apply_patch", 2) : ~log[k].ok

-----------------------------------------------------------------------------
(* Properties of request_patch_from_llm *)

\* marker occurs in text at the 0-based offset i, and nowhere before
FirstAt(text, marker, i) ==
    /\ i \in 0..(Len(text) - Len(marker))
    /\ text[i + 1] = marker[1]
    /\ SubSeq(text, i + 1, i + Len(marker)) = marker
    /\ \A j \in 0..(i - 1) : SubSeq(text, j + 1, j + Len(marker)) # marker

Holds(text, marker) == \E i \in 0..Len(text) : FirstAt(text, marker, i)

\* r is what is left of text once the whitespace at its two ends is removed
TrimOf(text, r) ==
    /\ r # << >> => r[1] \notin Whitespace /\ r[Len(r)] \notin Whitespace
    /\ \E a \in 0..Len(text) :
          /\ a + Len(r) <= Len(text)
          /\ SubSeq(text, a + 1, a + Len(r)) = r
          /\ \A k \in 1..a : text[k] \in Whitespace
          /\ \A k \in (a + Len(r) + 1)..Len(text) : text[k] \in Whitespace

\* text begins with prefix once the whitespace in front of it is skipped
BeginsAfterBlanks(text, prefix) ==
    \E a \in 0..Len(text) :
        /\ \A k \in 1..a : text[k] \in Whitespace
        /\ a + Len(prefix) <= Len(text)
        /\ SubSeq(text, a + 1, a + Len(prefix)) = prefix

\* C7: when the first PATCH_START comes before the first PATCH_END, the patch
\* is the text between the end of the one and the start of the other, trimmed
\* of whitespace; "noise PATCH_START\nDIFFTEXT\nPATCH_END more noise" gives
\* DIFFTEXT.
MarkerPayloadExtracted ==
    pc = "extracted" =>
        /\ \A s, e \in 0..Len(content[1]) :
              ( /\ FirstAt(content[1], PATCH_START, s)
                /\ FirstAt(content[1], PATCH_END, e)
                /\ s < e )
              => /\ s + Len(PATCH_START) <= e
                 /\ patch # None
                 /\ TrimOf(SubSeq(content[1], s + Len(PATCH_START) + 1, e), patch[1])
        /\ content[1] = NoisyResponse => patch = Some(DIFFTEXT)

\* the example of the specification, extracted
MarkerPayloadExtractedWitness ==
    /\ pc = "extracted"
    /\ content = Some(NoisyResponse)
    /\ patch = Some(DIFFTEXT)

\* C8, as stated: a response that holds neither marker and does not begin with
\* "diff --git" or "--- a/" gives no patch, and in run_loop the persona is
\* skipped without any repository operation.
NoMarkerNoPrefixGivesNone ==
    ( /\ content # None
      /\ pc # "extract"
      /\ ~Holds(content[1], PATCH_START)
      /\ ~Holds(content[1], PATCH_END)
      /\ ~StartsWith(content[1], DIFF_GIT)
      /\ ~StartsWith(content[1], MINUS_A) )
    => /\ patch = None
       /\ \A k \in 1..Len(log) : log[k].i = idx => log[k].op \notin RepoOps

\* C8, amended: a response that holds neither marker and does not begin with
\* "diff --git" or "--- a/" once its leading whitespace is skipped gives no
\* patch, and in run_loop the persona is skipped without any repository
\* operation.
NoMarkerNoDiffGivesNone ==
    ( /\ content # None
      /\ pc # "extract"
      /\ ~Holds(content[1], PATCH_START)
      /\ ~Holds(content[1], PATCH_END)
      /\ ~BeginsAfterBlanks(content[1], DIFF_GIT)
      /\ ~BeginsAfterBlanks(content[1], MINUS_A) )
    => /\ patch = None
       /\ \A k \in 1..Len(log) : log[k].i = idx => log[k].op \notin RepoOps

\* the last of two personas answered with chatter in a run that applies
\* patches, and the run ended with the first persona's branch only
NoMarkerNoDiffGivesNoneWitness ==
    /\ pc = "done"
    /\ FullMode
    /\ idx = 2
    /\ content = Some(Chatter)
    /\ patch = None
    /\ CallsFor("create_branch", 1) # {}
    /\ CallsFor("create_branch", 2) = {}

-----------------------------------------------------------------------------
(* Properties of parse_github_repo *)

\* the URL was built with the .git suffix
BuiltWithSuffix ==
    \E host \in Hosts :
        remote_url[1] \in { SshUrl(host, in_owner, in_repo, TRUE),
                            HttpsUrl(host, in_owner, in_repo, TRUE) }

\* C9, as stated: the SSH and the HTTPS URL of an owner and a repository, with
\* or without the .git suffix, all parse to (owner, repo).
UrlFormsParseAlike ==
    pc = "parsed" => parsed = Returned(<< in_owner, in_repo >>)

\* C9, amended: the SSH and the HTTPS URL of an owner and a repository parse
\* to (owner, repo) with the .git suffix, and without it when the repository
\* name does not itself end in ".git"; git@github.com:acme/widgets.git and
\* https://github.com/acme/widgets.git give (acme, widgets).
UrlFormsParseAlikeUnlessDotGit ==
    pc = "parsed" =>
        /\ (BuiltWithSuffix \/ ~EndsWith(in_repo, DOT_GIT))
              => parsed = Returned(<< in_owner, in_repo >>)
        /\ remote_url[1] \in { SshUrl(GITHUB, ACME, WIDGETS, TRUE),
                               HttpsUrl(GITHUB, ACME, WIDGETS, TRUE) }
              => parsed = Returned(<< ACME, WIDGETS >>)

\* https://github.com/acme/widgets.git parsed to (acme, widgets)
UrlFormsParseAlikeWitness ==
    /\ pc = "parsed"
    /\ remote_url = Some(HttpsUrl(GITHUB, ACME, WIDGETS, TRUE))
    /\ in_owner = ACME
    /\ parsed = Returned(<< ACME, WIDGETS >>)

-----------------------------------------------------------------------------
(* Branch names *)

\* C10: the branch names passed to create_branch in one run are pairwise
\* distinct, also for personas processed within one second and for persona
\* records that carry the same id.
BranchNamesDistinct ==
    \A j, k \in CallsOf("create_branch") : j # k => log[j].arg # log[k].arg

-----------------------------------------------------------------------------
(* The order of the repository operations *)

\* the place of an operation in a persona's workflow, 0 for any other call
Rank(op) ==
    CASE op = "create_branch" -> 1
      [] op = "apply_patch" -> 2
      [] op = "commit_all" -> 3
      [] op = "push" -> 4
      [] OTHER -> 0

\* call a may come right before call b: a call made after the loop is followed
\* by such calls only, a call of a persona's iteration by a later step of that
\* persona, by a call of a later persona, or by a call made after the loop
MayPrecede(a, b) ==
    IF a.i = 0 THEN b.i = 0
    ELSE \/ b.i = 0
         \/ a.i < b.i
         \/ a.i = b.i /\ Rank(a.op) < Rank(b.op)

\* C11: the calls are made in the order of the personas and, for one persona,
\* in the order create_branch, apply_patch, commit_all, push, entry after
\* entry and hence pairwise, so that the repository operations of persona i
\* all come before those of persona i+1; none of the four is called without
\* the one before it, called for the same persona right before; and the test
\* run comes after every persona's operations, never while a persona's
\* workflow is under way.
WorkingTreeMutatedSerially ==
    /\ \A k \in 1..(Len(log) - 1) : MayPrecede(log[k], log[k + 1])
    /\ \A k \in 1..Len(log) :
          Rank(log[k].op) > 1 =>
              /\ k > 1
              /\ log[k - 1].i = log[k].i
              /\ Rank(log[k - 1].op) = Rank(log[k].op) - 1
    /\ \A k \in 1..Len(log) : log[k].op = "run_tests" => log[k].i = 0
    /\ pc \in {"branch", "apply", "commit", "push"} => CallsOf("run_tests") = {}

\* two personas went through all four operations each, then the tests ran
WorkingTreeMutatedSeriallyWitness ==
    /\ pc = "done"
    /\ \A i \in {1, 2} : \A op \in RepoOps : CallsFor(op, i) # {}
    /\ CallsOf("run_tests") # {}

-----------------------------------------------------------------------------
(* Properties of the publish step *)

\* create_github_pr was called and what it needs was missing: no remote URL,
\* a URL that gives no (owner, repo), or no GITHUB_TOKEN
PublishInputMissing ==
    /\ Ended
    /\ CallsOf("create_github_pr") # {}
    /\ \/ remote_url = None
       \/ parsed.tag # "value"
       \/ github_token = Some(FALSE)

\* C12: when the remote URL cannot be resolved, or cannot be parsed into
\* owner and repository, or GITHUB_TOKEN is not set, create_github_pr sends no
\* pull-request request, returns no URL and does not raise, and the run ends
\* normally.
PublishSkippedGracefully ==
    PublishInputMissing =>
        /\ CallsOf("post_pull") = {}
        /\ \A k \in CallsOf("create_github_pr") : ~log[k].ok
        /\ pc = "done"

\* C13: a failed remote operation never aborts the run: after a failed push
\* the run still takes every persona and reaches the test step, and after a
\* failed pull-request request (an error status, a network failure, a
\* timeout) run_loop still ends normally, without raising.
RemoteFailureNeverAborts ==
    /\ (Ended /\ \E k \in CallsOf("push") : ~log[k].ok)
          => /\ idx = Len(personas)
             /\ tests_ok # None
             /\ \A i \in 1..Len(personas) : CallsFor("call_llm", i) # {}
    /\ (Ended /\ \E k \in CallsOf("post_pull") : ~log[k].ok) => pc = "done"

-----------------------------------------------------------------------------
(* Properties of a persona's workflow *)

\* C14: when create_branch fails for a persona, apply_patch, commit_all and
\* push are not called for that persona, and no commit of that persona lands
\* on the branch that was checked out before.
FailedCreateEndsWorkflow ==
    /\ \A k \in CallsOf("create_branch") :
          ~log[k].ok =>
              \A j \in 1..Len(log) :
                  log[j].i = log[k].i =>
                      log[j].op \notin {"apply_patch", "commit_all", "push"}
    /\ \A b \in DOMAIN branches :
          \A n \in 1..Len(branches[b]) :
              \E k \in CallsFor("create_branch", branches[b][n]) : log[k].ok

\* C15: when commit_all fails for a persona, push is not called for that
\* persona; push is called only when pushing was requested, and only for a
\* branch that holds a commit made for that persona.
PushOnlyAfterCommit ==
    /\ \A k \in CallsOf("commit_all") :
          ~log[k].ok => CallsFor("push", log[k].i) = {}
    /\ \A k \in CallsOf("push") :
          /\ push
          /\ \E j \in CallsFor("commit_all", log[k].i) : j < k /\ log[j].ok
          /\ log[k].arg[1] \in DOMAIN branches
          /\ \E n \in 1..Len(branches[log[k].arg[1]]) :
                branches[log[k].arg[1]][n] = log[k].i

-----------------------------------------------------------------------------
(* Properties of the providers that work through temporary files *)

\* the exit paths of call_vscode_chat and call_gh_copilot
ExitPaths ==
    {"success", "not_configured", "not_started", "nonzero", "timeout", "read_failed"}

\* C16: when call_vscode_chat or call_gh_copilot has returned or raised,
\* whether the call succeeded, found no helper configured, could not start
\* the program, saw a non-zero exit, timed out or failed to read the output
\* file, none of the temporary files it created exists any more.
TempFilesReleased ==
    pc \in {"llm_returned", "llm_raised"} =>
        /\ exit_path \in ExitPaths
        /\ made # {}
        /\ made \cap tmp_files = {}

\* a second call, of call_vscode_chat, that created its two files and failed
\* to read the output
TempFilesReleasedWitness ==
    /\ pc = "llm_raised"
    /\ exit_path = "read_failed"
    /\ calls = 2
    /\ {<< 2, "prompt" >>, << 2, "output" >>} \subseteq made

-----------------------------------------------------------------------------
(* Properties of the provider call inside run_loop *)

\* the step is a provider call that raised
ProviderFailed ==
    /\ Len(log') = Len(log) + 1
    /\ log'[Len(log')].op = "call_llm"
    /\ ~log'[Len(log')].ok

\* C17: a provider call that raises leaves the persona without a patch: the
\* exception goes no further, last_branch and the repository stay what they
\* were, the loop is ready for the next persona, and at no time is
\* create_branch, apply_patch, commit_all or push called for a persona whose
\* provider call raised.
ProviderFailureSkipsPersona ==
    [][ /\ ProviderFailed =>
              /\ patch' = None
              /\ last_branch' = last_branch
              /\ UNCHANGED << branches, head, staged, remote >>
              /\ idx' = idx + 1
              /\ pc' = "loop"
        /\ \A k \in 1..Len(log') :
              (log'[k].op = "call_llm" /\ ~log'[k].ok) =>
                  \A j \in 1..Len(log') :
                      log'[j].i = log'[k].i => log'[j].op \notin RepoOps
      ]_vars

\* the first persona's branch was created, the second persona's provider
\* call raised, and the run ended with last_branch the first persona's branch
ProviderFailureSkipsPersonaWitness ==
    /\ pc = "done"
    /\ FullMode
    /\ \E k \in CallsFor("create_branch", 1) : last_branch = log[k].arg
    /\ \E k \in CallsFor("call_llm", 2) : ~log[k].ok

-----------------------------------------------------------------------------
(* The cases of request_patch_from_llm *)

\* both markers occur in text, the first PATCH_END after the first PATCH_START
MarkersInOrder(text) ==
    \E s, e \in 0..Len(text) :
        /\ FirstAt(text, PATCH_START, s)
        /\ FirstAt(text, PATCH_END, e)
        /\ s < e

\* text holds no marker and begins with a diff header
BareDiff(text) ==
    /\ ~Holds(text, PATCH_START)
    /\ ~Holds(text, PATCH_END)
    /\ StartsWith(text, DIFF_GIT) \/ StartsWith(text, MINUS_A)

\* C19: extraction gives a patch in two cases and no other: both markers are
\* there with PATCH_END after PATCH_START, or no marker is there and the
\* response begins with "diff --git" or "--- a/", and then the patch is the
\* whole response; a response whose markers are mis-ordered or incomplete
\* gives none.
PatchInExactlyTwoCases ==
    pc = "extracted" =>
        /\ patch # None <=> (MarkersInOrder(content[1]) \/ BareDiff(content[1]))
        /\ BareDiff(content[1]) => patch = content

\* the markers of text are in order and hold nothing but whitespace between them
BlankPayload(text) ==
    \E s \in 0..Len(text) :
        /\ FirstAt(text, PATCH_START, s)
        /\ \E e \in (s + 1)..Len(text) :
              /\ FirstAt(text, PATCH_END, e)
              /\ \A k \in (s + Len(PATCH_START) + 1)..e : text[k] \in Whitespace

\* C20: a response whose marker payload is empty or only whitespace, such as
\* "PATCH_START\nPATCH_END", gives the empty patch, and run_loop treats it as
\* no patch: the iteration ends with last_branch and the repository as they
\* were, and create_branch, apply_patch, commit_all and push are never called
\* for that persona.
BlankPayloadIsNoPatch ==
    [][ /\ (pc' = "extracted" /\ BlankPayload(content'[1])) => patch' = Some(<< >>)
        /\ (idx' = idx + 1 /\ content' # None /\ BlankPayload(content'[1])) =>
              /\ patch' = Some(<< >>)
              /\ last_branch' = last_branch
              /\ UNCHANGED << branches, head, staged, remote >>
              /\ pc' = "loop"
        /\ (content' # None /\ pc' \notin {"extract", "extracted"}
                /\ BlankPayload(content'[1])) =>
              \A k \in 1..Len(log') : log'[k].i = idx' => log'[k].op \notin RepoOps
      ]_vars

\* the first persona's branch was created, the second persona answered
\* "PATCH_START\nPATCH_END", and the run ended with the first persona's branch
\* as last_branch
BlankPayloadIsNoPatchWitness ==
    /\ pc = "done"
    /\ FullMode
    /\ idx = 2
    /\ content = Some(EmptyPayload)
    /\ patch = Some(<< >>)
    /\ \E k \in CallsFor("create_branch", 1) : last_branch = log[k].arg
    /\ CallsFor("create_branch", 2) = {}

-----------------------------------------------------------------------------
(* Properties of run_tests *)

\* SKIP_TESTS holds one of the spellings of 1, true and yes
SkipFlagSet ==
    test_env.skip \in
        { Some(<< "1" >>),
          Some(<< "t", "r", "u", "e" >>), Some(<< "T", "r", "u", "e" >>),
          Some(<< "T", "R", "U", "E" >>),
          Some(<< "y", "e", "s" >>), Some(<< "Y", "E", "S" >>) }

\* C18: run_tests ends with a result, never with an exception: with
\* SKIP_TESTS set the result is success and the test command was not
\* executed; otherwise, when the setup goes through and the command runs, it
\* was executed once and the result is success exactly when its exit status
\* is 0; and when the setup or the command raises, the result is failure.
RunTestsNeverRaises ==
    pc = "tests_returned" =>
        /\ tests_ok \in { Some(TRUE), Some(FALSE) }
        /\ SkipFlagSet => tests_ok = Some(TRUE) /\ CallsOf("pytest") = {}
        /\ (~SkipFlagSet /\ test_env.setup_ok /\ test_env.exit # None) =>
              /\ Cardinality(CallsOf("pytest")) = 1
              /\ tests_ok = Some(TRUE) <=> test_env.exit = Some(0)
        /\ (~SkipFlagSet /\ (~test_env.setup_ok \/ test_env.exit = None)) =>
              tests_ok = Some(FALSE)

\* SKIP_TESTS=TRUE: success without a run of the test command
RunTestsNeverRaisesWitness ==
    /\ pc = "tests_returned"
    /\ test_env.skip = Some(<< "T", "R", "U", "E" >>)
    /\ tests_ok = Some(TRUE)
    /\ CallsOf("pytest") = {}

-----------------------------------------------------------------------------
(* Properties of the modes of run_loop *)

\* the calls that publish: git push, create_github_pr and the request it sends
PublishingOps == {"push", "create_github_pr", "post_pull"}

\* C21: in dry-run mode or without the apply flag no push and no pull-request
\* creation call is ever made, whatever the push and pr flags and whatever the
\* test result: no persona reaches create_branch and last_branch stays None.
NoPublishingWithoutApply ==
    (dry_run \/ ~apply) =>
        /\ \A k \in 1..Len(log) : log[k].op \notin PublishingOps
        /\ CallsOf("create_branch") = {}
        /\ pc \notin {"branch", "apply", "commit", "push"}
        /\ last_branch = None
        /\ branch = None

\* a run without the apply flag and outside dry-run, with push and pr set, in
\* which the last persona produced a patch and the tests ran and passed
NoPublishingWithoutApplyWitness ==
    /\ pc = "done"
    /\ ~apply /\ ~dry_run /\ use_llm /\ push /\ pr
    /\ Len(personas) >= 2
    /\ Truthy(patch)
    /\ \E k \in CallsOf("run_tests") : log[k].ok
    /\ tests_ok = Some(TRUE)

Elements(s) == { s[k] : k \in 1..Len(s) }

\* the create_branch calls that made a branch
Created == { k \in CallsOf("create_branch") : log[k].ok }

\* the personas for which a commit was made
CommitsMade == { log[k].i : k \in { c \in CallsOf("commit_all") : log[c].ok } }

\* a pull request was opened for a branch that origin holds with commits on it
PullRequestPublished ==
    /\ \E k \in CallsOf("post_pull") : log[k].ok
    /\ last_branch[1] \in DOMAIN remote
    /\ remote[last_branch[1]] # << >>

\* C22: branches accumulate.  Once a branch was created the branch checked out
\* is the latest branch created, never the original one again; for personas
\* i < j that both created a branch, the commit made for persona i is on
\* persona j's branch; the final test run is made on a branch that holds every
\* commit made, and so does the branch of a published pull request.
BranchesAccumulate ==
    /\ Created # {} => head = log[Last(Created)].arg[1] /\ head # MAIN
    /\ \A k1, k2 \in Created :
          (log[k1].i < log[k2].i /\ log[k1].i \in CommitsMade)
             => log[k1].i \in Elements(branches[log[k2].arg[1]])
    /\ CallsOf("run_tests") # {} => CommitsMade \subseteq Elements(branches[head])
    /\ PullRequestPublished => CommitsMade \subseteq Elements(remote[last_branch[1]])

====
